---------------------------- MODULE Spec2Model ----------------------------
(***************************************************************************)
(* Model of the Decentraland venue scene: src/index.ts (main),             *)
(* src/modules/venue.ts (createVenue, applyVideoMaterial) and              *)
(* src/modules/fx.ts (createInteractiveFX and its three per-frame          *)
(* systems).                                                               *)
(*                                                                         *)
(* Numbers are fixed point with One = 1.0.  Angles and times are counted   *)
(* in units of 1/Turn of a full turn (2*pi), so that Math.sin/Math.cos     *)
(* are evaluated from a quarter-wave table.                                *)
(***************************************************************************)
EXTENDS Integers, Sequences, FiniteSets, TLC

(* ------------------------------ bounds ------------------------------- *)

\* Largest frame time, in ticks of one eighth of 2*pi seconds.
MaxDt == 2

\* Frames are run while the elapsed time stays within MaxTime ticks.
MaxTime == 5

(* --------------------------- Math and math --------------------------- *)

\* sin(k * pi/40) for k = 0..20, in thousandths.
QuarterSin ==
    << 0, 78, 156, 233, 309, 383, 454, 522, 588, 649, 707,
       760, 809, 853, 891, 924, 951, 972, 988, 997, 1000 >>

QuarterTurn == Len(QuarterSin) - 1

\* 2*pi in angle units.
Turn == 4 * QuarterTurn

\* Math.PI in angle units.
MathPI == 2 * QuarterTurn

\* The fixed-point representation of 1.0.
One == QuarterSin[Len(QuarterSin)]

\* Math.sin of an angle given in angle units, in thousandths.
MathSin(a) ==
    LET r == a % Turn
    IN  IF r <= QuarterTurn THEN QuarterSin[r + 1]
        ELSE IF r <= 2 * QuarterTurn THEN QuarterSin[2 * QuarterTurn - r + 1]
        ELSE IF r <= 3 * QuarterTurn THEN 0 - QuarterSin[r - 2 * QuarterTurn + 1]
        ELSE 0 - QuarterSin[Turn - r + 1]

\* Math.cos of an angle given in angle units, in thousandths.
MathCos(a) == MathSin(a + QuarterTurn)

Vector3Create(x, y, z) == [x |-> x, y |-> y, z |-> z]

Vector3Zero == Vector3Create(0, 0, 0)

Vector3Equals(a, b) == a.x = b.x /\ a.y = b.y /\ a.z = b.z

Color3Create(r, g, b) == << r, g, b >>

Color4Red == << One, 0, 0, One >>

Color4Green == << 0, One, 0, One >>

Color4Black == << 0, 0, 0, One >>

Color4White == << One, One, One, One >>

\* Color4.fromHexString for a colour given by its three bytes.
Color4FromHex(r, g, b) ==
    << (r * One) \div 255, (g * One) \div 255, (b * One) \div 255, One >>

\* A colour field that the material leaves unset.
Unset == << >>

NoTexture == "none"

\* The component a call of Material.setPbrMaterial stores (it replaces the
\* whole component); case is the material's $case.
Pbr(albedo, emissive, texture, emissiveTexture) ==
    [case |-> "pbr", albedoColor |-> albedo, emissiveColor |-> emissive,
     texture |-> texture, emissiveTexture |-> emissiveTexture]

\* The decimal literal n/d in fixed point.
Dec(n, d) == (n * One) \div d

(* ------------------------------ entities ------------------------------ *)
\* engine.addEntity() hands out the entities in creation order.

screen == 2

danceFloor == 3

lightCount == 8

firstLight == 4

danceFloorButton == 14

lightsButton == 16

danceFloorOriginalScale == Vector3Create(10 * One, Dec(2, 100), 10 * One)

lightOriginalScale == Vector3Create(Dec(2, 10), Dec(2, 10), Dec(2, 10))

\* Mutant: the creation loop's test reads i > lightCount and pushes nothing.
lightEntitiesEmpty == << >>

\* The light creation loop: the entities pushed to lightEntities.
lightEntities == [i \in 1..lightCount |-> firstLight + i - 1]

Lights == {lightEntities[i] : i \in 1..Len(lightEntities)}

\* lightEntities.indexOf(light), zero based.
IndexOf(light) ==
    (CHOOSE i \in 1..Len(lightEntities) :
        /\ lightEntities[i] = light
        /\ \A j \in 1..(i - 1) : lightEntities[j] # light) - 1

VARIABLES
    Transform,    \* the Transform component: entity -> [position, scale]
    Material,     \* the Material component: entity -> Pbr material
    totalTime,    \* danceFloorSystem's elapsed time
    lightTime,    \* clubLightsSystem's elapsed time
    dt,           \* the frame's delta time, as passed to the systems
    triggered,    \* the buttons whose pointer-down isTriggered polled true
    pc,           \* the system the engine runs next in the frame
    videoGuide,   \* main: the awaited result of createVideoGuide
    mainPc,       \* main: "await", "done" or "rejected"
    error,        \* a system has thrown
    beforeClick   \* history: per button, what its latest click found

vars ==
    << Transform, Material, totalTime, lightTime, dt, triggered, pc,
       videoGuide, mainPc, error, beforeClick >>

(* --------------------------- construction ----------------------------- *)

Buttons == {danceFloorButton, lightsButton}

\* The Transform components created by createVenue and createInteractiveFX
\* for the entities that the systems and main read or write.
CreatedTransform ==
    [e \in {screen, danceFloor} \cup Lights \cup Buttons |->
        IF e = screen THEN
            [position |-> Vector3Create(8 * One, Dec(45, 10), Dec(155, 10)),
             scale |-> Vector3Create(Dec(158, 10), Dec(88, 10), Dec(1, 10))]
        ELSE IF e = danceFloor THEN
            [position |-> Vector3Create(8 * One, Dec(6, 100), 8 * One),
             scale |-> danceFloorOriginalScale]
        ELSE IF e \in Lights THEN
            [position |-> Vector3Create(8 * One, 5 * One, 8 * One),
             scale |-> lightOriginalScale]
        ELSE IF e = danceFloorButton THEN
            [position |-> Vector3Create(0 - Dec(35, 100), 0, Dec(1, 10)),
             scale |-> Vector3Create(Dec(2, 10), Dec(2, 10), Dec(1, 10))]
        ELSE
            [position |-> Vector3Create(Dec(35, 100), 0, Dec(1, 10)),
             scale |-> Vector3Create(Dec(2, 10), Dec(2, 10), Dec(1, 10))]]

\* The screen material set by createVenue: black and not emissive.
ScreenOffMaterial == Pbr(Color4Black, Color4Black, NoTexture, NoTexture)

\* Mutant: the dance floor button starts red.
danceFloorButtonStartRed == Color4Red

\* The albedo colour the dance floor button is created with.
danceFloorButtonStartColor == Color4Green

\* The Material components created by createVenue and createInteractiveFX.
CreatedMaterial ==
    [e \in {screen, danceFloor} \cup Lights \cup Buttons |->
        IF e = screen THEN ScreenOffMaterial
        ELSE IF e = danceFloor THEN
            Pbr(Color4FromHex(153, 50, 204), Color4FromHex(153, 50, 204),
                NoTexture, NoTexture)
        ELSE IF e \in Lights THEN Pbr(Unset, Color4Red, NoTexture, NoTexture)
        ELSE IF e = danceFloorButton
        THEN Pbr(danceFloorButtonStartColor, Unset, NoTexture, NoTexture)
        ELSE Pbr(Color4Green, Unset, NoTexture, NoTexture)]

\* main has run createVenue and createInteractiveFX and awaits
\* createVideoGuide; the engine is about to run its first frame.
Init ==
    /\ Transform = CreatedTransform
    /\ Material = CreatedMaterial
    /\ totalTime = 0
    /\ lightTime = 0
    /\ dt = 0
    /\ triggered = {}
    /\ pc = "danceFloorSystem"
    /\ videoGuide = << >>
    /\ mainPc = "await"
    /\ error = FALSE
    /\ beforeClick = [b \in Buttons |-> << >>]

(* ------------------------------ systems ------------------------------- *)

\* One tick of frame time: an eighth of 2*pi seconds.
Tick == Turn \div 8

DtValues == {k * Tick : k \in 1..MaxDt}

\* Mutant: the channels are sin(.)/2 and cos(.)/2, without the + 1.
DanceFloorColorNoOffset(t) ==
    Color3Create(MathSin(t * 2) \div 2,
                 MathCos(t \div 2) \div 2,
                 MathSin(t + MathPI) \div 2)

\* The emissive colour danceFloorSystem computes at elapsed time t.
DanceFloorColor(t) ==
    Color3Create((MathSin(t * 2) + One) \div 2,
                 (MathCos(t \div 2) + One) \div 2,
                 (MathSin(t + MathPI) + One) \div 2)

\* Mutant: the elapsed time is overwritten by dt instead of accumulated.
TotalTimeOverwritten(t, d) == d

\* totalTime += dt
TotalTimePlus(t, d) == t + d

\* danceFloorSystem(dt)
DanceFloorSystem(d) ==
    /\ pc = "danceFloorSystem"
    /\ ~error
    /\ totalTime + d <= MaxTime * Tick
    /\ dt' = d
    /\ totalTime' = TotalTimePlus(totalTime, d)
    /\ IF danceFloor \notin DOMAIN Material
       THEN /\ error' = TRUE
            /\ UNCHANGED << Material, pc >>
       ELSE /\ Material' =
                 IF Material[danceFloor].case = "pbr"
                 THEN [Material EXCEPT ![danceFloor].emissiveColor =
                                            DanceFloorColor(totalTime')]
                 ELSE Material
            /\ pc' = "clubLightsSystem"
            /\ UNCHANGED error
    /\ UNCHANGED << Transform, lightTime, triggered, videoGuide, mainPc,
                    beforeClick >>

\* Mutant: the lights are spread over Math.PI instead of Math.PI * 2.
LightAngleHalfCircle(light, t) ==
    t + IndexOf(light) * (MathPI \div Len(lightEntities))

\* The angle of a light at light time t.
LightAngle(light, t) == t + IndexOf(light) * (Turn \div Len(lightEntities))

\* The position clubLightsSystem gives a light at angle a.
LightPosition(a) ==
    Vector3Create(8 * One + MathCos(a) * 4, 5 * One, 8 * One + MathSin(a) * 4)

\* The emissive colour clubLightsSystem gives a light at angle a.
LightColor(a) ==
    Color3Create((MathSin(a * 2) + One) \div 2,
                 (MathCos((a * 8) \div 10) + One) \div 2,
                 (MathSin(a) + One) \div 2)

\* Mutant: the test for a light that is toggled off is never true.
LightIsOffNever(scale) == FALSE

\* clubLightsSystem's test for a light that is toggled off.
LightIsOff(scale) == Vector3Equals(scale, Vector3Zero)

\* The body of clubLightsSystem's loop from the k-th light on; err is set
\* where a getMutable throws, which ends the loop.
RECURSIVE LightsLoop(_, _, _, _)
LightsLoop(k, T, M, t) ==
    IF k > Len(lightEntities) THEN [T |-> T, M |-> M, err |-> FALSE]
    ELSE LET light == lightEntities[k]
         IN  IF light \notin DOMAIN T THEN [T |-> T, M |-> M, err |-> TRUE]
             ELSE IF LightIsOff(T[light].scale)
                  THEN LightsLoop(k + 1, T, M, t)
             ELSE LET angle == LightAngle(light, t)
                      T2 == [T EXCEPT ![light].position = LightPosition(angle)]
                  IN  IF light \notin DOMAIN M
                      THEN [T |-> T2, M |-> M, err |-> TRUE]
                      ELSE LightsLoop(k + 1, T2,
                               IF M[light].case = "pbr"
                               THEN [M EXCEPT ![light].emissiveColor =
                                                  LightColor(angle)]
                               ELSE M,
                               t)

\* clubLightsSystem(dt)
ClubLightsSystem ==
    /\ pc = "clubLightsSystem"
    /\ ~error
    /\ lightTime' = lightTime + dt \div 2
    /\ LET r == LightsLoop(1, Transform, Material, lightTime')
       IN  /\ Transform' = r.T
           /\ Material' = r.M
           /\ error' = r.err
           /\ pc' = IF r.err THEN pc ELSE "buttonSystem"
    /\ UNCHANGED << totalTime, dt, triggered, videoGuide, mainPc,
                    beforeClick >>

\* Mutant: the loop stops one light short of the end of lightEntities.
RECURSIVE ScaleLoopSkipLast(_, _, _)
ScaleLoopSkipLast(k, T, s) ==
    IF k >= Len(lightEntities) THEN [T |-> T, err |-> FALSE]
    ELSE LET light == lightEntities[k]
         IN  IF light \notin DOMAIN T THEN [T |-> T, err |-> TRUE]
             ELSE ScaleLoopSkipLast(k + 1, [T EXCEPT ![light].scale = s], s)

\* The lights branch's loop from the k-th light on: every light's scale is
\* set to s; err is set where a getMutable throws, which ends the loop.
RECURSIVE ScaleLoop(_, _, _)
ScaleLoop(k, T, s) ==
    IF k > Len(lightEntities) THEN [T |-> T, err |-> FALSE]
    ELSE LET light == lightEntities[k]
         IN  IF light \notin DOMAIN T THEN [T |-> T, err |-> TRUE]
             ELSE ScaleLoop(k + 1, [T EXCEPT ![light].scale = s], s)

\* Mutant: the visibility test has lost its negation.
IsVisibleNotNegated(scale) == Vector3Equals(scale, Vector3Zero)

\* isVisible / areVisible: the scale is not the zero vector.
IsVisible(scale) == ~Vector3Equals(scale, Vector3Zero)

\* Mutant: the floor is shown again with the lights' scale.
DanceFloorToggledToLightScale(isVisible) ==
    IF isVisible THEN Vector3Zero ELSE lightOriginalScale

\* The scale the dance floor branch assigns.
DanceFloorToggled(isVisible) ==
    IF isVisible THEN Vector3Zero ELSE danceFloorOriginalScale

\* Mutant: the button is turned red by every click.
ButtonColorAlwaysRed(isVisible) == Color4Red

\* Mutant: the feedback colours are swapped.
ButtonColorSwapped(isVisible) == IF isVisible THEN Color4Green ELSE Color4Red

\* The albedo colour a button gets: red for "off", green for "on".
ButtonColor(isVisible) == IF isVisible THEN Color4Red ELSE Color4Green

\* The button system's dance floor branch, for the set t of triggered
\* buttons.
DanceFloorBranch(T, M, t) ==
    IF danceFloorButton \notin t THEN [T |-> T, M |-> M, err |-> FALSE]
    ELSE IF danceFloor \notin DOMAIN T THEN [T |-> T, M |-> M, err |-> TRUE]
    ELSE LET isVisible == IsVisible(T[danceFloor].scale)
         IN  [T |-> [T EXCEPT ![danceFloor].scale =
                        DanceFloorToggled(isVisible)],
              M |-> [e \in DOMAIN M \cup {danceFloorButton} |->
                        IF e = danceFloorButton
                        THEN Pbr(ButtonColor(isVisible),
                                 Unset, NoTexture, NoTexture)
                        ELSE M[e]],
              err |-> FALSE]

\* Mutant: the lights are shown again with the dance floor's scale.
LightsToggledToFloorScale(areVisible) ==
    IF areVisible THEN Vector3Zero ELSE danceFloorOriginalScale

\* Mutant: the lights branch hides the lights whatever their state.
LightsToggledNeverShown(areVisible) == Vector3Zero

\* The scale the lights branch assigns to every light.
LightsToggled(areVisible) ==
    IF areVisible THEN Vector3Zero ELSE lightOriginalScale

\* Mutant: the lights branch tests the dance floor's transform.
FirstLightScaleOfFloor(T) == T[danceFloor].scale

\* firstLightTransform.scale
FirstLightScale(T) == T[lightEntities[1]].scale

\* The button system's lights branch, for the set t of triggered buttons.
LightsBranch(T, M, t) ==
    IF lightsButton \notin t THEN [T |-> T, M |-> M, err |-> FALSE]
    ELSE IF Len(lightEntities) = 0 \/ lightEntities[1] \notin DOMAIN T
         THEN [T |-> T, M |-> M, err |-> TRUE]
    ELSE LET areVisible == IsVisible(FirstLightScale(T))
             r == ScaleLoop(1, T, LightsToggled(areVisible))
         IN  IF r.err THEN [T |-> r.T, M |-> M, err |-> TRUE]
             ELSE [T |-> r.T,
                   M |-> [e \in DOMAIN M \cup {lightsButton} |->
                             IF e = lightsButton
                             THEN Pbr(ButtonColor(areVisible),
                                      Unset, NoTexture, NoTexture)
                             ELSE M[e]],
                   err |-> FALSE]

\* What button b toggles, as the components T and M hold it: the scales of
\* the toggled entities and the button's albedo colour.
Toggled(b, T, M) ==
    [scale |-> IF b = danceFloorButton THEN << T[danceFloor].scale >>
               ELSE [i \in 1..Len(lightEntities) |->
                        T[lightEntities[i]].scale],
     color |-> M[b].albedoColor]

\* The button system, in a frame where isTriggered is true of the buttons
\* in t.  beforeClick records what each triggered button toggles as the
\* frame's click found it.
ButtonSystem(t) ==
    /\ pc = "buttonSystem"
    /\ ~error
    /\ triggered' = t
    /\ beforeClick' =
         [b \in Buttons |->
             IF b \in t THEN << Toggled(b, Transform, Material) >>
             ELSE beforeClick[b]]
    /\ LET f == DanceFloorBranch(Transform, Material, t)
           l == IF f.err THEN f ELSE LightsBranch(f.T, f.M, t)
       IN  /\ Transform' = l.T
           /\ Material' = l.M
           /\ error' = l.err
           /\ pc' = IF l.err THEN pc ELSE "danceFloorSystem"
    /\ UNCHANGED << totalTime, lightTime, dt, videoGuide, mainPc >>

(* -------------------------------- main -------------------------------- *)

\* The values createVideoGuide can resolve to: null or undefined (<< >>),
\* or a guide << videoTexture >> whose videoTexture may be undefined.
Guides == {<< >>, << "undefined" >>, << "videoTexture" >>}

\* applyVideoMaterial(screen, videoTexture)
applyVideoMaterial(M, e, videoTexture) ==
    [x \in DOMAIN M \cup {e} |->
        IF x = e THEN Pbr(Unset, Color4White, videoTexture, videoTexture)
        ELSE M[x]]

\* Mutant: only the guide is tested, not its videoTexture.
GuideIsNotNull(g) == g # << >>

\* videoGuide && videoGuide.videoTexture
GuideHasVideoTexture(g) == g # << >> /\ g[1] # "undefined"

\* main, resumed with the value g of the awaited createVideoGuide.
MainResume(g) ==
    /\ mainPc = "await"
    /\ videoGuide' = g
    /\ Material' =
         IF GuideHasVideoTexture(g)
         THEN applyVideoMaterial(Material, screen, g[1])
         ELSE Material
    /\ mainPc' = "done"
    /\ UNCHANGED << Transform, totalTime, lightTime, dt, triggered, pc, error,
                    beforeClick >>

\* main, where the awaited createVideoGuide rejects: main throws.
MainReject ==
    /\ mainPc = "await"
    /\ mainPc' = "rejected"
    /\ UNCHANGED << Transform, Material, totalTime, lightTime, dt, triggered,
                    pc, videoGuide, error, beforeClick >>

Next ==
    \/ \E d \in DtValues : DanceFloorSystem(d)
    \/ ClubLightsSystem
    \/ \E t \in SUBSET Buttons : ButtonSystem(t)
    \/ \E g \in Guides : MainResume(g)
    \/ MainReject

Spec == Init /\ [][Next]_vars

(* ------------------------------ properties ---------------------------- *)

IsZero(v) == Vector3Equals(v, Vector3Zero)

DanceFloorScale == Transform[danceFloor].scale

LightScale(light) == Transform[light].scale

LightsShown == \A light \in Lights : ~IsZero(LightScale(light))

LightsHidden == \A light \in Lights : IsZero(LightScale(light))

\* A step of the button system that ran to its end.
ButtonStep == pc = "buttonSystem" /\ pc' = "danceFloorSystem"

\* C1: in every reachable state the dance floor's scale is the zero vector
\* or the cached original scale (10, 0.02, 10).
C1_DanceFloorScale ==
    /\ danceFloor \in DOMAIN Transform
    /\ danceFloorOriginalScale = Vector3Create(10 * One, 20, 10 * One)
    /\ DanceFloorScale \in {Vector3Zero, danceFloorOriginalScale}

\* C1 witness: the floor has been hidden and shown again by two clicks.
C1_Witness ==
    /\ danceFloorButton \in triggered
    /\ DanceFloorScale = danceFloorOriginalScale
    /\ pc = "danceFloorSystem"

\* C2: in every reachable state each of the 8 lights has the zero vector or
\* the cached original scale (0.2, 0.2, 0.2) as its scale.
C2_LightScale ==
    /\ Cardinality(Lights) = 8
    /\ Lights \subseteq DOMAIN Transform
    /\ lightOriginalScale = Vector3Create(200, 200, 200)
    /\ \A light \in Lights :
          LightScale(light) \in {Vector3Zero, lightOriginalScale}

\* C2 witness: the lights have been hidden and shown again by two clicks.
C2_Witness ==
    /\ lightsButton \in triggered
    /\ \A light \in Lights : LightScale(light) = lightOriginalScale
    /\ pc = "danceFloorSystem"

\* C3: a frame whose button system sees the dance floor button triggered
\* flips the floor: a non-zero scale becomes zero, a zero scale becomes the
\* cached original scale.
C3_DanceFloorToggle ==
    [][ButtonStep /\ danceFloorButton \in triggered' =>
          /\ ~IsZero(DanceFloorScale) =>
                Transform'[danceFloor].scale = Vector3Zero
          /\ IsZero(DanceFloorScale) =>
                Transform'[danceFloor].scale = danceFloorOriginalScale]_vars

\* C3 witness: a click has just hidden the floor.
C3_Witness ==
    /\ danceFloorButton \in triggered
    /\ DanceFloorScale = Vector3Zero
    /\ pc = "danceFloorSystem"

\* C4: a frame whose button system sees the lights button triggered flips
\* all lights together: shown lights all get scale zero, hidden lights all
\* get the cached original light scale.
C4_LightsToggle ==
    [][ButtonStep /\ lightsButton \in triggered' =>
          /\ Cardinality(Lights) = 8
          /\ LightsShown =>
                \A light \in Lights : Transform'[light].scale = Vector3Zero
          /\ LightsHidden =>
                \A light \in Lights :
                    Transform'[light].scale = lightOriginalScale]_vars

\* C4 witness: a click has just hidden all the lights.
C4_Witness ==
    /\ lightsButton \in triggered
    /\ LightsHidden
    /\ Lights # {}
    /\ pc = "danceFloorSystem"

\* A step of danceFloorSystem that ran to its end.
DanceFloorStep == pc = "danceFloorSystem" /\ pc' = "clubLightsSystem"

\* A step of clubLightsSystem that ran to its end.
ClubLightsStep == pc = "clubLightsSystem" /\ pc' = "buttonSystem"

\* C5 as claimed: the effect of every invocation is the effect its input
\* has on the first invocation, whatever invocations came before: the
\* colours and positions written are those of the frame's dt alone, and a
\* click hides the toggled entities and turns the button red.
C5_Stateless ==
    [][/\ DanceFloorStep =>
             Material'[danceFloor].emissiveColor = DanceFloorColor(dt')
       /\ ClubLightsStep =>
             \A light \in Lights :
                 /\ Transform'[light].position =
                        LightPosition(LightAngle(light, dt \div 2))
                 /\ Material'[light].emissiveColor =
                        LightColor(LightAngle(light, dt \div 2))
       /\ ButtonStep /\ danceFloorButton \in triggered' =>
             /\ Transform'[danceFloor].scale = Vector3Zero
             /\ Material'[danceFloorButton].albedoColor = Color4Red
       /\ ButtonStep /\ lightsButton \in triggered' =>
             /\ \A light \in Lights : Transform'[light].scale = Vector3Zero
             /\ Material'[lightsButton].albedoColor = Color4Red]_vars

\* C5 as amended: the effect of an invocation is determined by its input
\* together with the state kept between invocations: the elapsed time
\* accumulated over all earlier frames and the current scale of the toggled
\* entities.
C5_StateDetermined ==
    [][/\ DanceFloorStep =>
             /\ totalTime' = totalTime + dt'
             /\ Material'[danceFloor].emissiveColor =
                    DanceFloorColor(totalTime + dt')
       /\ ClubLightsStep =>
             /\ lightTime' = lightTime + dt \div 2
             /\ \A light \in Lights :
                    IF IsZero(LightScale(light))
                    THEN /\ Transform'[light] = Transform[light]
                         /\ Material'[light] = Material[light]
                    ELSE /\ Transform'[light].position =
                               LightPosition(
                                   LightAngle(light, lightTime + dt \div 2))
                         /\ Material'[light].emissiveColor =
                               LightColor(
                                   LightAngle(light, lightTime + dt \div 2))
       /\ ButtonStep =>
             /\ Transform'[danceFloor].scale =
                    IF danceFloorButton \notin triggered' THEN DanceFloorScale
                    ELSE IF IsZero(DanceFloorScale)
                         THEN danceFloorOriginalScale
                    ELSE Vector3Zero
             /\ \A light \in Lights :
                    Transform'[light].scale =
                        IF lightsButton \notin triggered' THEN LightScale(light)
                        ELSE IF IsZero(LightScale(lightEntities[1]))
                             THEN lightOriginalScale
                        ELSE Vector3Zero]_vars

\* C5 witness: the second frame of two with the same dt has given the dance
\* floor a colour other than the first frame's.
C5_Witness ==
    /\ pc = "clubLightsSystem"
    /\ dt = Tick
    /\ totalTime = 2 * Tick
    /\ Material[danceFloor].emissiveColor = DanceFloorColor(2 * Tick)
    /\ DanceFloorColor(2 * Tick) # DanceFloorColor(Tick)

\* C6: no system ever throws: every getMutable targets an entity that has
\* the component, and lightEntities[0] exists.
C6_NoFailure ==
    /\ ~error
    /\ Len(lightEntities) >= 1
    /\ {danceFloor} \cup Lights \subseteq DOMAIN Transform
    /\ {danceFloor} \cup Lights \subseteq DOMAIN Material

\* C6 witness: frames have run with both buttons clicked in the same frame,
\* twice, and a further frame has got through both animation systems.
C6_Witness ==
    /\ triggered = Buttons
    /\ DanceFloorScale = danceFloorOriginalScale
    /\ LightsShown
    /\ pc = "buttonSystem"
    /\ ~error

\* C7: in every reachable state the dance floor button is green exactly
\* when the dance floor's scale is non-zero and red exactly when it is zero.
C7_DanceFloorButtonColor ==
    /\ Material[danceFloorButton].albedoColor = Color4Green
          <=> ~IsZero(DanceFloorScale)
    /\ Material[danceFloorButton].albedoColor = Color4Red
          <=> IsZero(DanceFloorScale)

\* C7 witness: a click has hidden the floor and the button is red.
C7_Witness ==
    /\ IsZero(DanceFloorScale)
    /\ Material[danceFloorButton].albedoColor = Color4Red

\* C8: in every reachable state the lights button is green exactly when the
\* lights are shown (non-zero scale) and red exactly when they are hidden.
C8_LightsButtonColor ==
    /\ Lights # {}
    /\ Material[lightsButton].albedoColor = Color4Green <=> LightsShown
    /\ Material[lightsButton].albedoColor = Color4Red <=> LightsHidden

\* C8 witness: a click has hidden the lights and the button is red.
C8_Witness ==
    /\ Lights # {}
    /\ LightsHidden
    /\ Material[lightsButton].albedoColor = Color4Red

\* C9: in every reachable state all 8 lights have the same visibility: all
\* have scale zero or all have the original scale, as the first light has.
C9_LightsUniform ==
    /\ Cardinality(Lights) = 8
    /\ \/ \A light \in Lights : LightScale(light) = Vector3Zero
       \/ \A light \in Lights : LightScale(light) = lightOriginalScale

\* C9 witness: the lights toggle has tested the first light while the lights
\* were hidden, and has shown all of them.
C9_Witness ==
    /\ lightsButton \in triggered
    /\ danceFloorButton \notin triggered
    /\ Cardinality(Lights) = 8
    /\ \A light \in Lights : LightScale(light) = lightOriginalScale

\* The material applyVideoMaterial gives the screen for a video texture.
VideoMaterial(videoTexture) ==
    Pbr(Unset, Color4White, videoTexture, videoTexture)

\* C10: the screen has the video material only if main has resumed with a
\* non-null guide that has a videoTexture; with a null guide or a guide
\* without videoTexture the screen keeps createVenue's black material.
C10_VideoMaterialOnlyWithTexture ==
    /\ Material[screen] # ScreenOffMaterial =>
          /\ mainPc = "done"
          /\ videoGuide # << >>
          /\ videoGuide[1] # "undefined"
          /\ Material[screen] = VideoMaterial(videoGuide[1])
    /\ mainPc = "done" /\ (videoGuide = << >> \/ videoGuide[1] = "undefined")
          => Material[screen] = ScreenOffMaterial

\* C10 witness: main has finished with a guide that has no videoTexture and
\* the screen is still black.
C10_Witness ==
    /\ mainPc = "done"
    /\ videoGuide = << "undefined" >>
    /\ Material[screen] = ScreenOffMaterial

\* C11: for either button, a click that follows an earlier click of that
\* button (in a later frame, with any number of frames without that click in
\* between) leaves the toggled entities' scale and the button's colour
\* exactly as they were before the earlier click.
C11_TwoClicksRestore ==
    [][ButtonStep =>
          \A b \in Buttons :
              b \in triggered' /\ beforeClick[b] # << >> =>
                  Toggled(b, Transform', Material') = beforeClick[b][1]]_vars

\* C11 witness: a second click of the lights button has found the lights
\* hidden and the button red, and the lights are shown and the button green
\* as at the start.
C11_Witness ==
    /\ lightsButton \in triggered
    /\ beforeClick[lightsButton] # << >>
    /\ beforeClick[lightsButton][1].color = Color4Red
    /\ Toggled(lightsButton, Transform, Material) =
          Toggled(lightsButton, CreatedTransform, CreatedMaterial)
    /\ Lights # {}

\* C12: a light that is toggled off keeps its position and emissive colour:
\* no step that finds it with scale zero, nor the step that hides it,
\* changes them, so over any number of frames they stay what they were when
\* the light was hidden.
C12_HiddenLightFrozen ==
    [][\A light \in Lights :
          IsZero(LightScale(light)) \/ IsZero(Transform'[light].scale) =>
              /\ Transform'[light].position = Transform[light].position
              /\ Material'[light].emissiveColor =
                    Material[light].emissiveColor]_vars

\* C12 witness: clubLightsSystem has run twice over the hidden lights, the
\* second time in a frame that followed a frame without clicks, and every
\* light is still away from where the system would have put it.
C12_Witness ==
    /\ pc = "buttonSystem"
    /\ triggered = {}
    /\ Lights # {}
    /\ LightsHidden
    /\ \A light \in Lights :
          /\ Transform[light].position #
                LightPosition(LightAngle(light, lightTime))
          /\ Material[light].emissiveColor #
                LightColor(LightAngle(light, lightTime))

\* An eighth of a full turn, in angle units.
EighthTurn == Turn \div 8

\* C13: after a run of clubLightsSystem with the lights shown, light i (from
\* 0) sits at angle lightTime + i * (2*pi/8): two lights i and j differ in
\* angle by exactly (j - i) eighths of a full turn, and no two lights share
\* a position.
C13_LightsEvenlySpaced ==
    pc = "buttonSystem" /\ LightsShown =>
        /\ Len(lightEntities) = 8
        /\ 8 * EighthTurn = Turn
        /\ \A i \in 1..Len(lightEntities) :
              /\ LightAngle(lightEntities[i], lightTime) =
                    lightTime + (i - 1) * EighthTurn
              /\ Transform[lightEntities[i]].position =
                    LightPosition(lightTime + (i - 1) * EighthTurn)
        /\ \A i, j \in 1..Len(lightEntities) :
              /\ LightAngle(lightEntities[j], lightTime)
                    - LightAngle(lightEntities[i], lightTime)
                  = (j - i) * EighthTurn
              /\ i # j => Transform[lightEntities[i]].position #
                             Transform[lightEntities[j]].position

\* C13 witness: clubLightsSystem has run with the lights shown up to light
\* time Tick, and the third light is a quarter turn ahead of the first.
C13_Witness ==
    /\ pc = "buttonSystem"
    /\ LightsShown
    /\ Len(lightEntities) = 8
    /\ lightTime = Tick
    /\ Transform[lightEntities[1]].position = LightPosition(lightTime)
    /\ Transform[lightEntities[3]].position =
          LightPosition(lightTime + QuarterTurn)
    /\ Transform[lightEntities[3]].position #
          Transform[lightEntities[1]].position

\* The channels of a colour all lie in the closed range [0, 1].
InUnitRange(color) == \A k \in DOMAIN color : color[k] \in 0..One

\* C14: every RGB channel that danceFloorSystem and clubLightsSystem write
\* into an emissive colour lies in [0, 1]: in every reachable state, and for
\* every elapsed time and angle of a full period of the channel formulas.
C14_ChannelsInUnitRange ==
    /\ InUnitRange(Material[danceFloor].emissiveColor)
    /\ \A light \in Lights : InUnitRange(Material[light].emissiveColor)
    /\ \A t \in 0..(5 * Turn - 1) :
          InUnitRange(DanceFloorColor(t)) /\ InUnitRange(LightColor(t))

\* C14 witness: danceFloorSystem has written a red channel of exactly 0
\* (sin = -1) and clubLightsSystem a channel of exactly 1.
C14_Witness ==
    /\ pc = "buttonSystem"
    /\ Len(Material[danceFloor].emissiveColor) = 3
    /\ Material[danceFloor].emissiveColor[1] = 0
    /\ \E light \in Lights :
          /\ Len(Material[light].emissiveColor) = 3
          /\ \E k \in 1..3 : Material[light].emissiveColor[k] = One

\* What a click of button b alone makes of what b toggles: shown entities
\* get scale zero and the button red, hidden ones the cached original scale
\* and the button green.
Flipped(b) ==
    IF b = danceFloorButton
    THEN IF IsZero(DanceFloorScale)
         THEN [scale |-> << danceFloorOriginalScale >>, color |-> Color4Green]
         ELSE [scale |-> << Vector3Zero >>, color |-> Color4Red]
    ELSE IF IsZero(LightScale(lightEntities[1]))
         THEN [scale |-> [i \in 1..Len(lightEntities) |-> lightOriginalScale],
               color |-> Color4Green]
         ELSE [scale |-> [i \in 1..Len(lightEntities) |-> Vector3Zero],
               color |-> Color4Red]

\* C15: the two toggles are independent: a frame's button system leaves
\* what a button toggles (scales and button colour) unchanged when that
\* button is not triggered, whatever the other button does, and flips it as
\* a click of that button alone does when it is triggered, also when both
\* buttons are triggered in the same frame.
C15_TogglesIndependent ==
    [][ButtonStep =>
          \A b \in Buttons :
              Toggled(b, Transform', Material') =
                  IF b \in triggered' THEN Flipped(b)
                  ELSE Toggled(b, Transform, Material)]_vars

\* C15 witness: both buttons were triggered in one frame that found the
\* floor shown and the lights hidden: the floor is hidden, the lights shown.
C15_Witness ==
    /\ triggered = Buttons
    /\ Lights # {}
    /\ beforeClick[danceFloorButton] # << >>
    /\ beforeClick[danceFloorButton][1].color = Color4Green
    /\ beforeClick[lightsButton] # << >>
    /\ beforeClick[lightsButton][1].color = Color4Red
    /\ IsZero(DanceFloorScale)
    /\ Material[danceFloorButton].albedoColor = Color4Red
    /\ \A light \in Lights : LightScale(light) = lightOriginalScale
    /\ Material[lightsButton].albedoColor = Color4Green

=============================================================================
